---- MODULE Spec2Model ----
(***************************************************************************)
(* artist-database: the certificate merge engine (services/certificates),  *)
(* the box page with its signed tokens (services/box, routes/box) and the   *)
(* certificate requests (routes/certificates), as state machines.           *)
(*                                                                          *)
(* Text is a sequence of one-character strings.  Characters that TLA+       *)
(* strings cannot spell are named: "<U+2014>" is the em dash, "<NUL>",      *)
(* "<BEL>", "<BS>", "<VT>" are the control characters, "<U+753B>" is a    *)
(* character outside ASCII.  Python's None is the one-element sequence      *)
(* None, which no text equals.                                              *)
(*                                                                          *)
(* SpecMerge applies merge_unlayer_html to templates and records, SpecFormat *)
(* applies _safe_text to values, Spec is the box page with the artworks and *)
(* the clock, SpecLog the location history under the artwork routes and the *)
(* box page, SpecCert the certificate requests with the renderer and the    *)
(* upload folder, SpecTemplate the template GET and save requests of two    *)
(* clients whose steps interleave.  SpecArtworks is the artwork routes with *)
(* the answer of each request in reply, SpecUpload the uploads named by the *)
(* clock, SpecRace the box page POST beside a deletion, with the POST in    *)
(* flight in pending, SpecSaved a render after a template save.             *)
(*                                                                          *)
(* A request that reads the database and commits later is split at the      *)
(* points where another request can run: the query, the INSERT of a first   *)
(* access, the commit of a save, each call of the renderer.                 *)
(***************************************************************************)
EXTENDS Integers, Sequences, FiniteSets, TLC

None == <<"None">>

\* ------------------------------------------------------------------ bounds
MaxFrags == 2

\* the longest text handed to _safe_text
MaxLen == 3

\* the most artworks and location entries ever stored
MaxArtworks == 2

MaxLogs == 1

\* -------------------------------------------------------------- characters
EmDash == "<U+2014>"
NUL == "<NUL>"
BEL == "<BEL>"
BS == "<BS>"
VT == "<VT>"

\* str.isspace / the regular expression class \s, on the characters used here
WhiteSpace == {" ", "\t", "\n", "\r", "\f", VT}

IsSpace(c) == c \in WhiteSpace

LowerLetters ==
  {"a", "b", "c", "d", "e", "f", "g", "h", "i", "j", "k", "l", "m",
   "n", "o", "p", "q", "r", "s", "t", "u", "v", "w", "x", "y", "z"}

UpperLetters ==
  {"A", "B", "C", "D", "E", "F", "G", "H", "I", "J", "K", "L", "M",
   "N", "O", "P", "Q", "R", "S", "T", "U", "V", "W", "X", "Y", "Z"}

Digits == {"0", "1", "2", "3", "4", "5", "6", "7", "8", "9"}

OctDigits == {"0", "1", "2", "3", "4", "5", "6", "7"}

AsciiLetters == LowerLetters \cup UpperLetters

\* the regular expression class \w
IsWord(c) == c \in AsciiLetters \cup Digits \cup {"_"}

\* str.lower on one character
Lower(c) ==
  CASE c = "A" -> "a" [] c = "B" -> "b" [] c = "C" -> "c" [] c = "D" -> "d"
    [] c = "E" -> "e" [] c = "F" -> "f" [] c = "G" -> "g" [] c = "H" -> "h"
    [] c = "I" -> "i" [] c = "J" -> "j" [] c = "K" -> "k" [] c = "L" -> "l"
    [] c = "M" -> "m" [] c = "N" -> "n" [] c = "O" -> "o" [] c = "P" -> "p"
    [] c = "Q" -> "q" [] c = "R" -> "r" [] c = "S" -> "s" [] c = "T" -> "t"
    [] c = "U" -> "u" [] c = "V" -> "v" [] c = "W" -> "w" [] c = "X" -> "x"
    [] c = "Y" -> "y" [] c = "Z" -> "z" [] OTHER -> c

LowerText(s) == [i \in 1..Len(s) |-> Lower(s[i])]

DigitValue(c) ==
  CASE c = "0" -> 0 [] c = "1" -> 1 [] c = "2" -> 2 [] c = "3" -> 3
    [] c = "4" -> 4 [] c = "5" -> 5 [] c = "6" -> 6 [] c = "7" -> 7
    [] c = "8" -> 8 [] c = "9" -> 9

DigitChar(n) ==
  CASE n = 0 -> "0" [] n = 1 -> "1" [] n = 2 -> "2" [] n = 3 -> "3"
    [] n = 4 -> "4" [] n = 5 -> "5" [] n = 6 -> "6" [] n = 7 -> "7"
    [] n = 8 -> "8" [] n = 9 -> "9"

\* str(n) of a non-negative integer
RECURSIVE IntText(_)
IntText(n) == IF n < 10 THEN <<DigitChar(n)>>
              ELSE IntText(n \div 10) \o <<DigitChar(n % 10)>>

\* s has w at index i
HasAt(s, i, w) ==
  /\ i >= 1
  /\ i + Len(w) - 1 <= Len(s)
  /\ \A j \in 1..Len(w) : s[i + j - 1] = w[j]

Min(S) == CHOOSE x \in S : \A y \in S : x <= y

Max(S) == CHOOSE x \in S : \A y \in S : x >= y

\* the first index >= i of s holding c, 0 when there is none
IndexFrom(s, i, c) ==
  LET at == {j \in i..Len(s) : s[j] = c}
  IN IF at = {} THEN 0 ELSE Min(at)

\* the last index of s holding c, 0 when there is none
LastIndex(s, c) ==
  LET at == {j \in 1..Len(s) : s[j] = c}
  IN IF at = {} THEN 0 ELSE Max(at)

\* the concatenation of a sequence of texts
RECURSIVE Flatten(_)
Flatten(ss) ==
  IF ss = <<>> THEN <<>>
  ELSE IF Len(ss) = 1 THEN ss[1]
  ELSE LET h == Len(ss) \div 2
       IN Flatten(SubSeq(ss, 1, h)) \o Flatten(SubSeq(ss, h + 1, Len(ss)))

\* str.strip(): the text between the first and the last character that is
\* not white space
Strip(s) ==
  LET solid == {j \in 1..Len(s) : ~IsSpace(s[j])}
  IN IF solid = {} THEN <<>> ELSE SubSeq(s, Min(solid), Max(solid))

\* ------------------------------------------------------- value formatter
\* markupsafe.escape on one character
\* an escape that lets the ampersand through
EscapeCharKeepingAmp(c) ==
  CASE c = "<" -> <<"&", "l", "t", ";">>
    [] c = ">" -> <<"&", "g", "t", ";">>
    [] c = "'" -> <<"&", "#", "3", "9", ";">>
    [] c = "\"" -> <<"&", "#", "3", "4", ";">>
    [] OTHER -> <<c>>

EscapeChar(c) ==
  CASE c = "&" -> <<"&", "a", "m", "p", ";">>
    [] c = ">" -> <<"&", "g", "t", ";">>
    [] c = "<" -> <<"&", "l", "t", ";">>
    [] c = "'" -> <<"&", "#", "3", "9", ";">>
    [] c = "\"" -> <<"&", "#", "3", "4", ";">>
    [] OTHER -> <<c>>

html_escape(s) == Flatten([i \in 1..Len(s) |-> EscapeChar(s[i])])

_safe_text(v) ==
  IF v = None THEN <<EmDash>>
  ELSE LET s == Strip(v)
       IN IF s # <<>> THEN html_escape(s) ELSE <<EmDash>>

\* ------------------------------------------------------- image inliner
\* filename.rsplit(".", 1)[1]: the text after the last dot; the subscript
\* raises IndexError when the name holds no dot
HasDot(name) == LastIndex(name, ".") # 0

AfterLastDot(name) ==
  SubSeq(name, LastIndex(name, ".") + 1, Len(name))

\* base64.b64encode(f.read()).decode("ascii") of the stored image bytes; every
\* stored image of the model holds the three bytes "ABC"
ImageBase64 == <<"Q", "U", "J", "D">>

\* artwork_image_data_uri.  isfile is what os.path.isfile(path) answers at
\* line 86 and readable whether open(path, "rb") at line 92 succeeds; the two
\* differ when the file goes away in between.  The result is the value
\* returned, or the exception that leaves the function.
artwork_image_data_uri(image_filename, isfile, readable) ==
  IF image_filename = None \/ image_filename = <<>>
    THEN [raised |-> "", uri |-> <<>>]
  ELSE IF ~isfile
    THEN [raised |-> "", uri |-> <<>>]
  ELSE IF ~HasDot(image_filename)
    THEN [raised |-> "IndexError", uri |-> <<>>]
  ELSE IF ~readable
    THEN [raised |-> "OSError", uri |-> <<>>]
  ELSE LET ext == LowerText(AfterLastDot(image_filename))
           mime == IF ext \in {<<"j", "p", "g">>, <<"j", "p", "e", "g">>}
                   THEN <<"i", "m", "a", "g", "e", "/", "j", "p", "e", "g">>
                   ELSE <<"i", "m", "a", "g", "e", "/", "p", "n", "g">>
       IN [raised |-> "",
           uri |-> <<"d", "a", "t", "a", ":">> \o mime
                   \o <<";", "b", "a", "s", "e", "6", "4", ",">> \o ImageBase64]

\* ------------------------------------------------- strip_empty_image_tags
SingleQuote == "'"
DoubleQuote == "\""

\* the index after the white space that starts at index i of s
SkipSpace(s, i) ==
  LET solid == {j \in i..Len(s) : ~IsSpace(s[j])}
  IN IF solid = {} THEN Len(s) + 1 ELSE Min(solid)

HasAtNoCase(s, i, w) ==
  /\ i >= 1
  /\ i + Len(w) - 1 <= Len(s)
  /\ \A j \in 1..Len(w) : Lower(s[i + j - 1]) = w[j]

\* \bsrc=(['"])\s*\1 at index j of s, before the tag's closing > at index p
EmptySrcAt(s, j, p) ==
  /\ ~IsWord(s[j - 1])
  /\ HasAtNoCase(s, j, <<"s", "r", "c", "=">>)
  /\ j + 4 < p
  /\ s[j + 4] \in {SingleQuote, DoubleQuote}
  /\ LET k == SkipSpace(s, j + 5)
     IN k < p /\ s[k] = s[j + 4]

\* The match of <img\b[^>]*\bsrc=(['"])\s*\1[^>]*> (IGNORECASE, DOTALL) that
\* starts at index i of s: the index after it, 0 when there is none.  [^>]*
\* cannot cross a >, so every match that starts at i ends at the first >
\* after the tag name.
ImgMatchEnd(s, i) ==
  IF ~HasAtNoCase(s, i, <<"<", "i", "m", "g">>) THEN 0
  ELSE LET p == IndexFrom(s, i + 4, ">")
       IN IF p = 0 \/ p = i + 4 \/ IsWord(s[i + 4]) THEN 0
          ELSE IF \E j \in (i + 5)..(p - 1) : EmptySrcAt(s, j, p)
                 THEN p + 1
                 ELSE 0

\* re.sub(pattern, "", html): leftmost matches, left to right, not overlapping
RECURSIVE StripFrom(_, _)
StripFrom(s, i) ==
  LET starts == {j \in i..Len(s) : s[j] = "<" /\ ImgMatchEnd(s, j) # 0}
  IN IF starts = {} THEN SubSeq(s, i, Len(s))
     ELSE SubSeq(s, i, Min(starts) - 1) \o StripFrom(s, ImgMatchEnd(s, Min(starts)))

strip_empty_image_tags(html) ==
  IF html = <<>> THEN html ELSE StripFrom(html, 1)

\* ------------------------------------------------------ re replacement
\* What pat.sub(val, out) makes of val: Python reads a replacement string as a
\* template (re._parser.parse_template).  The patterns of merge_unlayer_html
\* hold no group, so the only group a template may name is 0.
ReError == "<re.error>"
Group0 == "<group 0>"

\* chr(n) for the codes an escape can produce
Chr(n) ==
  CASE n = 0 -> NUL [] n = 7 -> BEL [] n = 8 -> BS [] n = 9 -> "\t"
    [] n = 10 -> "\n" [] n = 11 -> VT [] n = 12 -> "\f" [] n = 13 -> "\r"
    [] n = 32 -> " "
    [] OTHER -> "chr(" \o ToString(n) \o ")"

\* the one-letter escapes of a template (re._parser.ESCAPES), as codes
EscapeLetters == {"a", "b", "f", "n", "r", "t", "v"}

EscapeCode(c) ==
  CASE c = "a" -> 7 [] c = "b" -> 8 [] c = "f" -> 12 [] c = "n" -> 10
    [] c = "r" -> 13 [] c = "t" -> 9 [] c = "v" -> 11

IsOct(s, i) == i <= Len(s) /\ s[i] \in OctDigits

IsDigit(s, i) == i <= Len(s) /\ s[i] \in Digits

AllZero(name) == name # <<>> /\ \A i \in 1..Len(name) : name[i] = "0"

\* The template of v read from index i: literal characters, Group0 where the
\* matched text is inserted, ReError where parse_template raises.
RECURSIVE TemplateFrom(_, _)
TemplateFrom(v, i) ==
  IF i > Len(v) THEN <<>>
  ELSE IF v[i] # "\\" THEN
    LET b == IndexFrom(v, i, "\\")
    IN IF b = 0 THEN SubSeq(v, i, Len(v))
       ELSE SubSeq(v, i, b - 1) \o TemplateFrom(v, b)
  ELSE IF i = Len(v) THEN <<ReError>>
  ELSE LET c == v[i + 1] IN
    IF c = "g" THEN
      IF ~HasAt(v, i + 2, <<"<">>) THEN <<ReError>>
      ELSE LET close == IndexFrom(v, i + 3, ">")
           IN IF close = 0 \/ ~AllZero(SubSeq(v, i + 3, close - 1))
                THEN <<ReError>>
                ELSE <<Group0>> \o TemplateFrom(v, close + 1)
    ELSE IF c = "0" THEN
      IF IsOct(v, i + 2) /\ IsOct(v, i + 3)
        THEN <<Chr((8 * DigitValue(v[i + 2]) + DigitValue(v[i + 3])) % 256)>>
             \o TemplateFrom(v, i + 4)
      ELSE IF IsOct(v, i + 2)
        THEN <<Chr(DigitValue(v[i + 2]))>> \o TemplateFrom(v, i + 3)
      ELSE <<NUL>> \o TemplateFrom(v, i + 2)
    ELSE IF c \in Digits THEN
      IF c \in OctDigits /\ IsOct(v, i + 2) /\ IsOct(v, i + 3)
        THEN LET n == 64 * DigitValue(c) + 8 * DigitValue(v[i + 2])
                      + DigitValue(v[i + 3])
             IN IF n > 255 THEN <<ReError>>
                ELSE <<Chr(n)>> \o TemplateFrom(v, i + 4)
        ELSE <<ReError>>
    ELSE IF c = "\\" THEN <<"\\">> \o TemplateFrom(v, i + 2)
    ELSE IF c \in EscapeLetters THEN <<Chr(EscapeCode(c))>> \o TemplateFrom(v, i + 2)
    ELSE IF c \in AsciiLetters THEN <<ReError>>
    ELSE <<"\\", c>> \o TemplateFrom(v, i + 2)

parse_template(v) == TemplateFrom(v, 1)

TemplateRaises(v) ==
  LET parts == parse_template(v)
  IN \E i \in 1..Len(parts) : parts[i] = ReError

\* the text a parsed template puts in place of the matched text
Expand(parts, matched) ==
  IF \A i \in 1..Len(parts) : parts[i] # Group0 THEN parts
  ELSE Flatten([i \in 1..Len(parts) |->
                  IF parts[i] = Group0 THEN matched ELSE <<parts[i]>>])

\* ------------------------------------------------------ merge_unlayer_html
\* the keys of `values`, in the order the dict is built and iterated
Keys ==
  <<<<"a", "r", "t", "i", "s", "t", "_", "n", "a", "m", "e">>,
    <<"a", "r", "t", "w", "o", "r", "k", "_", "t", "i", "t", "l", "e">>,
    <<"y", "e", "a", "r">>,
    <<"m", "e", "d", "i", "u", "m">>,
    <<"d", "i", "m", "e", "n", "s", "i", "o", "n", "s">>,
    <<"e", "d", "i", "t", "i", "o", "n", "_", "i", "n", "f", "o">>,
    <<"a", "r", "t", "w", "o", "r", "k", "_", "i", "d">>,
    <<"c", "e", "r", "t", "i", "f", "i", "c", "a", "t", "e", "_", "d", "a", "t", "e">>,
    <<"a", "r", "t", "w", "o", "r", "k", "_", "i", "m", "a", "g", "e", "_", "u", "r", "l">>,
    <<"s", "i", "g", "n", "a", "t", "u", "r", "e", "_", "l", "i", "n", "e">>>>

SignatureLine ==
  <<"<", "s", "p", "a", "n", " ", "s", "t", "y", "l", "e", "=", "\"", "d",
    "i", "s", "p", "l", "a", "y", ":", "i", "n", "l", "i", "n", "e", "-",
    "b", "l", "o", "c", "k", ";", "b", "o", "r", "d", "e", "r", "-", "b",
    "o", "t", "t", "o", "m", ":", "1", "p", "x", " ", "s", "o", "l", "i",
    "d", " ", "#", "1", "1", "1", ";", "m", "i", "n", "-", "w", "i", "d",
    "t", "h", ":", "2", "6", "0", "p", "x", ";", "h", "e", "i", "g", "h",
    "t", ":", "1", ".", "2", "e", "m", ";", "v", "e", "r", "t", "i", "c",
    "a", "l", "-", "a", "l", "i", "g", "n", ":", "b", "a", "s", "e", "l",
    "i", "n", "e", ";", "\"", ">", "<", "/", "s", "p", "a", "n", ">">>

\* datetime.utcnow().strftime("%Y-%m-%d") on the day of the request
CertificateDate == <<"2", "0", "2", "4", "-", "0", "1", "-", "0", "2">>

\* the two delimiters of each of the six patterns, in the order of `patterns`
Delims ==
  <<[open |-> <<"%", "%">>, close |-> <<"%", "%">>],
    [open |-> <<"[", "[">>, close |-> <<"]", "]">>],
    [open |-> <<"{", "{">>, close |-> <<"}", "}">>],
    [open |-> <<"&", "#", "9", "1", ";", "&", "#", "9", "1", ";">>,
     close |-> <<"&", "#", "9", "3", ";", "&", "#", "9", "3", ";">>],
    [open |-> <<"&", "#", "1", "2", "3", ";", "&", "#", "1", "2", "3", ";">>,
     close |-> <<"&", "#", "1", "2", "5", ";", "&", "#", "1", "2", "5", ";">>],
    [open |-> <<"&", "l", "b", "r", "a", "c", "k", ";",
               "&", "l", "b", "r", "a", "c", "k", ";">>,
     close |-> <<"&", "r", "b", "r", "a", "c", "k", ";",
                "&", "r", "b", "r", "a", "c", "k", ";">>]>>

\* The match of open \s* key \s* close that starts at index i of s: the index
\* after it, 0 when there is none.  Neither a key nor a closing delimiter
\* starts with white space, so the greedy \s* has one way to match.
MatchEnd(s, i, d, key) ==
  IF ~HasAt(s, i, d.open) THEN 0
  ELSE LET j == SkipSpace(s, i + Len(d.open))
       IN IF ~HasAt(s, j, key) THEN 0
          ELSE LET k == SkipSpace(s, j + Len(key))
               IN IF HasAt(s, k, d.close) THEN k + Len(d.close) ELSE 0

\* pat.sub(val, out) once val is parsed: leftmost matches, left to right, not
\* overlapping; the text put in is not looked at again by this pattern
RECURSIVE SubFrom(_, _, _, _, _)
SubFrom(s, i, d, key, parts) ==
  LET starts == {j \in i..Len(s) :
                   s[j] = d.open[1] /\ MatchEnd(s, j, d, key) # 0}
  IN IF starts = {} THEN SubSeq(s, i, Len(s))
     ELSE LET b == Min(starts)
              e == MatchEnd(s, b, d, key)
          IN SubSeq(s, i, b - 1) \o Expand(parts, SubSeq(s, b, e - 1))
             \o SubFrom(s, e, d, key, parts)

\* the six pat.sub calls of one key, in order (a pattern finds nothing in an
\* empty text; asking makes TLC compute each pass before the next)
RECURSIVE SubPatterns(_, _, _, _)
SubPatterns(out, p, key, parts) ==
  IF p > Len(Delims) \/ out = <<>> THEN out
  ELSE SubPatterns(SubFrom(out, 1, Delims[p], key, parts), p + 1, key, parts)

\* the loop over values.items(), from key number k on; Raised when a pat.sub
\* raises re.error, which ends the call.  (Len(next) >= 0 always holds: the
\* test makes TLC compute the text of one key before it turns to the next.)
Raised == <<"<raised>">>

RECURSIVE SubKeys(_, _, _)
SubKeys(out, k, values) ==
  IF k > Len(Keys) THEN out
  ELSE IF TemplateRaises(values[k]) THEN Raised
  ELSE LET next == SubPatterns(out, 1, Keys[k], parse_template(values[k]))
       IN IF Len(next) >= 0 THEN SubKeys(next, k + 1, values) ELSE Raised

\* the dict `values` of merge_unlayer_html, as a sequence in key order
ResolvedValues(artwork, artist_name, img_uri) ==
  <<_safe_text(artist_name),
    _safe_text(artwork.title),
    _safe_text(artwork.year),
    _safe_text(artwork.medium),
    _safe_text(artwork.dimensions),
    _safe_text(IF artwork.edition_info \in {None, <<>>}
               THEN <<"U", "n", "i", "q", "u", "e">>
               ELSE artwork.edition_info),
    _safe_text(IntText(artwork.id)),
    _safe_text(CertificateDate),
    html_escape(img_uri),
    SignatureLine>>

\* A merge that strips the empty image tags whether or not the artwork has an
\* image: merge_unlayer_html without the test of line 153.
MergeStrippingAlways(template_html, artwork, artist_name, isfile, readable) ==
  LET img == artwork_image_data_uri(artwork.image_filename, isfile, readable)
  IN IF img.raised # "" THEN [raised |-> img.raised, text |-> <<>>]
     ELSE LET values == ResolvedValues(artwork, artist_name, img.uri)
              start == IF template_html = None THEN <<>> ELSE template_html
              out == SubKeys(start, 1, values)
          IN IF out = Raised THEN [raised |-> "re.error", text |-> <<>>]
             ELSE [raised |-> "", text |-> strip_empty_image_tags(out)]

\* merge_unlayer_html; isfile and readable are what the upload folder answers
\* to artwork_image_data_uri.  The result is the text returned, or the
\* exception that leaves the function.
merge_unlayer_html(template_html, artwork, artist_name, isfile, readable) ==
  LET img == artwork_image_data_uri(artwork.image_filename, isfile, readable)
  IN IF img.raised # "" THEN [raised |-> img.raised, text |-> <<>>]
     ELSE LET values == ResolvedValues(artwork, artist_name, img.uri)
              start == IF template_html = None THEN <<>> ELSE template_html
              out == SubKeys(start, 1, values)
          IN IF out = Raised THEN [raised |-> "re.error", text |-> <<>>]
             ELSE [raised |-> "",
                   text |-> IF img.uri = <<>>
                            THEN strip_empty_image_tags(out)
                            ELSE out]

\* ------------------------------------------------------------- box tokens
\* Config.SECRET_KEY
SECRET_KEY == "dev-change-me"

\* max_age_seconds of verify_box_token
MaxAge == 60 * 60 * 24 * 365 * 5

\* the request carries no token (request.args.get("token", "") is "")
NoToken == [artwork_id |-> 0, ts |-> 0, key |-> ""]

\* URLSafeTimedSerializer(secret_key, salt="box-token").dumps at time `at`:
\* the payload, the time of signing, and a signature only secret_key makes
make_box_token(secret_key, artwork_id, at) ==
  [artwork_id |-> artwork_id, ts |-> at, key |-> secret_key]

\* verification that never looks at the age of the token
VerifyIgnoringAge(secret_key, token, at) ==
  IF token.key # secret_key
    THEN [raised |-> "BadSignature", artwork_id |-> 0]
  ELSE [raised |-> "", artwork_id |-> token.artwork_id]

\* verification that looks at the age before it looks at the signature
VerifyAgeFirst(secret_key, token, at) ==
  IF at - token.ts > MaxAge
    THEN [raised |-> "SignatureExpired", artwork_id |-> 0]
  ELSE IF token.key # secret_key
    THEN [raised |-> "BadSignature", artwork_id |-> 0]
  ELSE [raised |-> "", artwork_id |-> token.artwork_id]

\* serializer(secret_key).loads(token, max_age=max_age_seconds) at time `at`:
\* the payload, or the exception raised
verify_box_token(secret_key, token, at) ==
  IF token.key # secret_key
    THEN [raised |-> "BadSignature", artwork_id |-> 0]
  ELSE IF at - token.ts > MaxAge
    THEN [raised |-> "SignatureExpired", artwork_id |-> 0]
  ELSE [raised |-> "", artwork_id |-> token.artwork_id]

\* a form field as it comes, without the .strip()
RawField(v) == IF v = None THEN <<>> ELSE v

\* (request.form.get(name) or "").strip()
StrippedField(v) == Strip(IF v = None THEN <<>> ELSE v)

\* ------------------------------------------------------ words for claims
\* v is absent, empty or white space only
Blank(v) == v = None \/ \A i \in 1..Len(v) : IsSpace(v[i])

\* t is v without its leading and trailing white space, and is not empty
IsTrimOf(t, v) ==
  \E i \in 1..Len(v) : \E j \in i..Len(v) :
    /\ t = SubSeq(v, i, j)
    /\ ~IsSpace(v[i])
    /\ ~IsSpace(v[j])
    /\ \A k \in 1..(i - 1) : IsSpace(v[k])
    /\ \A k \in (j + 1)..Len(v) : IsSpace(v[k])

\* the character references that stand for <, >, &, ' and "
Entities ==
  {[text |-> <<"&", "a", "m", "p", ";">>, char |-> "&"],
   [text |-> <<"&", "l", "t", ";">>, char |-> "<"],
   [text |-> <<"&", "g", "t", ";">>, char |-> ">"],
   [text |-> <<"&", "#", "3", "9", ";">>, char |-> "'"],
   [text |-> <<"&", "#", "3", "4", ";">>, char |-> "\""],
   [text |-> <<"&", "q", "u", "o", "t", ";">>, char |-> "\""]}

EntityAt(t, i) == {e \in Entities : HasAt(t, i, e.text)}

\* t read as HTML text: every character reference becomes its character
RECURSIVE Unescape(_, _)
Unescape(t, i) ==
  IF i > Len(t) THEN <<>>
  ELSE IF EntityAt(t, i) # {}
    THEN LET e == CHOOSE e \in EntityAt(t, i) : TRUE
         IN <<e.char>> \o Unescape(t, i + Len(e.text))
  ELSE <<t[i]>> \o Unescape(t, i + 1)

\* w is a part of s
Contains(s, w) == \E i \in 1..(Len(s) + 1) : HasAt(s, i, w)

\* ------------------------------------------------------------------ state
VARIABLES
  pieces,             \* how the template under merge is put together (atoms)
  template_html,      \* merge_unlayer_html: the template text
  artwork,            \* merge_unlayer_html: the artwork record
  merged,             \* what merge_unlayer_html(template_html, ...) gave
  remerged,           \* what merge_unlayer_html(merged text, ...) gave
  value,              \* _safe_text: the value to format
  formatted,          \* what _safe_text(value) gave
  artworks,           \* table artwork: id -> row
  upload_folder,      \* the names of the files in UPLOAD_FOLDER
  logs,               \* table location_log, in insertion order
  now,                \* the clock, in seconds
  resp,               \* what the last box_page request was and what it got
  pending,            \* the box_page POST that has loaded its artwork
  reply,              \* what the last request to the artwork routes got
  unlayer_templates,  \* table unlayer_certificate_templates: id -> row
  render,             \* the certificate request in progress
  calls,              \* the requests to /api/certificate-template, by tab
  saved               \* the payload of the last save that was acknowledged

mergeVars == <<pieces, template_html, artwork, merged, remerged>>

formatVars == <<value, formatted>>

boxVars == <<logs, now, resp, pending>>

certVars == <<unlayer_templates, render, calls, saved>>

vars ==
  <<mergeVars, formatVars, artworks, upload_folder, reply, boxVars, certVars>>

\* ------------------------------------------------ inputs of the merge engine
\* Config.ARTIST_NAME
ARTIST_NAME == <<"M", "i", "e", "t", " ", "W", "a", "r", "l", "o", "p">>

\* An atom of a template: a placeholder token (key is its number in Keys, 0
\* when the name between the delimiters is no recognised key), a plain
\* literal, or raw markup (image tags, halves of a token).
Lit(t) == [kind |-> "lit", key |-> 0, text |-> t]

Raw(t) == [kind |-> "raw", key |-> 0, text |-> t]

Token(p, k, l, r) ==
  [kind |-> "tok", key |-> k,
   text |-> Delims[p].open \o l \o Keys[k] \o r \o Delims[p].close]

UnknownToken(p, name, l, r) ==
  [kind |-> "tok", key |-> 0,
   text |-> Delims[p].open \o l \o name \o r \o Delims[p].close]

\* names that are no key: a key in another letter case, a part of a key
UnknownNames == {<<"Y", "e", "a", "r">>, <<"t", "i", "t", "l", "e">>}

\* the white space put around the name inside a token
WsRuns == {<<>>, <<" ">>}

TokenAtoms ==
  {Token(p, k, l, r) :
     p \in 1..Len(Delims), k \in 1..Len(Keys), l \in WsRuns, r \in WsRuns}
  \cup
  {UnknownToken(p, n, l, r) :
     p \in 1..Len(Delims), n \in UnknownNames, l \in WsRuns, r \in WsRuns}

ImageName == <<"a", ".", "p", "n", "g">>

\* the fragments templates are built from
Fragments ==
  {<<Lit(<<"<", "p", ">">>)>>,
   <<Token(1, 2, <<>>, <<>>)>>,
   <<Token(2, 1, <<>>, <<>>)>>,
   <<Token(3, 3, <<>>, <<>>)>>,
   <<Raw(<<"<", "i", "m", "g", " ", "s", "r", "c", "=", "\"">>), Token(2, 9, <<>>, <<>>), Raw(<<"\"", ">">>)>>,
   <<Raw(<<"<", "i", "m", "g", " ", "s", "r", "c", "=", "\"", "\"", ">">>)>>,
   <<Raw(<<"<", "i", "m">>), Raw(<<"<", "i", "m", "g", " ", "s", "r", "c", "=", "\"", "\"", ">">>),
     Raw(<<"g", " ", "s", "r", "c", "=", "\"", "\"", ">">>)>>,
   <<Raw(<<"<", "i", "m", "g", " ", "s", "r", "c", " ", "=", " ", "\"", "\"", ">">>)>>,
   <<Raw(<<"[", "[", "y", "e">>), Token(1, 9, <<>>, <<>>), Raw(<<"a", "r", "]", "]">>)>>}

\* every token alone, and every run of at most MaxFrags fragments
Templates ==
  {<<a>> : a \in TokenAtoms}
  \cup
  {Flatten(fs) : fs \in UNION {[1..n -> Fragments] : n \in 0..MaxFrags}}

TextOf(atoms) == Flatten([i \in 1..Len(atoms) |-> atoms[i].text])

Titles ==
  {<<"T">>,
   <<"{", "{", "y", "e", "a", "r", "}", "}">>,
   <<"[", "[", "a", "r", "t", "i", "s", "t", "_", "n", "a", "m", "e", "]", "]">>,
   <<"A", "\\", "D">>,
   <<"\\", "\\">>}

MergeArtworks ==
  [id : {7}, title : Titles, year : {<<"2", "0", "2", "1">>},
   medium : {<<"O", "i", "l">>}, dimensions : {None}, edition_info : {None},
   image_filename : {None, ImageName}]

NotRun == [raised |-> "<not run>", text |-> <<>>]

\* os.path.isfile(os.path.join(upload_folder, name))
IsFile(folder, name) == name \in folder

\* ------------------------------------------------ the application at rest
NotFormatted == <<"<not formatted>">>

NoResponse ==
  [status |-> 0, at |-> 0, method |-> "", artwork_id |-> 0,
   token |-> [artwork_id |-> 0, ts |-> 0, key |-> ""], location |-> None,
   verified |-> "not called", can_update |-> FALSE, token_error |-> "<None>",
   error |-> "<None>", success |-> FALSE]

NoRender ==
  [pc |-> "idle", kind |-> "", artwork_id |-> 0, artwork |-> None,
   html |-> None, isfile |-> FALSE, invoked |-> 0, step |-> 0,
   browser |-> "none", error |-> None, status |-> 0, raised |-> "",
   body |-> None]

\* a field that the JSON payload does not have
Absent == <<"<absent>">>

\* a JSON object with the fields design_json and html, as far as it has them
Obj(design_json, html) ==
  [json |-> "object", design_json |-> design_json, html |-> html,
   items |-> {}]

\* request.get_json() gave {}; also the payload of a request that has none
NoPayload == Obj(Absent, Absent)

\* the row get_or_create_unlayer_template adds
NoRow == [design_json |-> None, html |-> None]

\* the browser tabs that talk to /api/certificate-template
Clients == {"tab1", "tab2"}

NoCall ==
  [pc |-> "idle", op |-> "", payload |-> NoPayload, loaded |-> NoRow,
   status |-> 0, raised |-> "", body |-> None]

\* the answer of an artwork route, as far as it is followed: the status
\* and, of bulk_update_artworks, the two counts of its message
Reply(status, updated, skipped) ==
  [status |-> status, updated |-> updated, skipped |-> skipped]

NoReply == Reply(0, 0, 0)

\* no box_page POST is between its get_or_404 and its commit
NoPending ==
  [pc |-> "idle", artwork_id |-> 0, token |-> NoToken, location |-> None,
   note |-> None]

\* the tables and the clock once create_app has run on an empty data folder
AppInit ==
  /\ artworks = <<>>
  /\ reply = NoReply
  /\ logs = <<>>
  /\ now = 0
  /\ resp = NoResponse
  /\ pending = NoPending
  /\ unlayer_templates = <<>>
  /\ render = NoRender
  /\ calls = [c \in Clients |-> NoCall]
  /\ saved = NoPayload

MergeIdle ==
  /\ pieces = <<>>
  /\ template_html = <<>>
  /\ artwork = None
  /\ merged = NotRun
  /\ remerged = NotRun

FormatIdle ==
  /\ value = None
  /\ formatted = NotFormatted

\* ------------------------------------------------ uploads
\* Config.ALLOWED_ARTWORK_EXTENSIONS
ALLOWED_ARTWORK_EXTENSIONS ==
  {<<"j", "p", "g">>, <<"j", "p", "e", "g">>, <<"p", "n", "g">>}

allowed_ext(filename, allowed) ==
  HasDot(filename) /\ LowerText(AfterLastDot(filename)) \in allowed

\* a character outside ASCII
Kanji == "<U+753B>"

NonAscii == {EmDash, Kanji}

FilenameChars == AsciiLetters \cup Digits \cup {"_", ".", "-"}

\* s.strip(chars)
StripChars(s, chars) ==
  LET keep == {i \in 1..Len(s) : s[i] \notin chars}
  IN IF keep = {} THEN <<>> ELSE SubSeq(s, Min(keep), Max(keep))

\* werkzeug's secure_filename: the characters outside ASCII are dropped, a
\* path separator counts as white space, the words are joined by "_", every
\* character that is no letter, digit, "_", "." or "-" is dropped, and the
\* dots and underscores at both ends are stripped
secure_filename(filename) ==
  LET ascii == SelectSeq(filename, LAMBDA c : c \notin NonAscii)
      spaced == Strip([i \in 1..Len(ascii) |->
                         IF ascii[i] = "/" THEN " " ELSE ascii[i]])
      joined == Flatten([i \in 1..Len(spaced) |->
                           IF ~IsSpace(spaced[i]) THEN <<spaced[i]>>
                           ELSE IF ~IsSpace(spaced[i - 1]) THEN <<"_">>
                           ELSE <<>>])
  IN StripChars(SelectSeq(joined, LAMBDA c : c \in FilenameChars), {".", "_"})

\* save_upload: the name under which the file is written to the upload
\* folder; ts is datetime.utcnow() as %Y%m%d%H%M%S
save_upload(filename, ts) == ts \o <<"_">> \o secure_filename(filename)

\* ------------------------------------------------ requests
\* the second in which the uploads are made
UploadStamp ==
  <<"2", "0", "2", "4", "0", "1", "0", "2", "0", "3", "0", "4", "0", "5">>

\* request.files has no "image", or one without a file name
NoUpload == <<>>

\* the fields of the add-artwork form that the model follows
PlainForm ==
  [title |-> <<"T">>, year |-> None, medium |-> <<"O", "i", "l">>,
   dimensions |-> None, edition_info |-> None]

\* request.form.get("status", "working")
FormStatus(form) ==
  IF "status" \in DOMAIN form THEN form.status ELSE "working"

\* request.form[key] of a form without the key raises BadRequestKeyError,
\* which Flask answers 400
MissingKey(form) == form.title = Absent \/ form.medium = Absent

\* add_artwork, POST.  A file name with an extension that is not allowed is
\* answered 400 and nothing is stored; an allowed upload is written to the
\* upload folder before the form is read, so that a form without title or
\* medium is answered 400 with the file in the folder and no artwork.  The
\* new id is the one SQLite gives an INTEGER PRIMARY KEY: one more than the
\* largest id in the table.
add_artwork(form, upload, ts) ==
  LET id == IF DOMAIN artworks = {} THEN 1 ELSE Max(DOMAIN artworks) + 1
      refused ==
        upload # NoUpload /\ ~allowed_ext(upload, ALLOWED_ARTWORK_EXTENSIONS)
      image_filename ==
        IF upload = NoUpload THEN None ELSE save_upload(upload, ts)
  IN /\ id <= MaxArtworks
     /\ upload_folder' = IF upload = NoUpload \/ refused THEN upload_folder
                         ELSE upload_folder \cup {image_filename}
     /\ IF refused \/ MissingKey(form)
        THEN /\ artworks' = artworks
             /\ reply' = Reply(400, 0, 0)
        ELSE /\ artworks' = artworks @@
                  (id :> [title |-> form.title, year |-> form.year,
                          medium |-> form.medium,
                          dimensions |-> form.dimensions,
                          edition_info |-> form.edition_info,
                          status |-> FormStatus(form),
                          image_filename |-> image_filename])
             /\ reply' = Reply(302, 0, 0)
     /\ UNCHANGED <<mergeVars, formatVars, boxVars, certVars>>

\* the fields edit_artwork sets: again a title and a medium, and no status
EditForm == PlainForm

\* edit_artwork, POST, for a stored artwork (404 otherwise): every field of
\* the form is set on the artwork, the image only when one is uploaded, and
\* the commit stores them.  A form without title or medium, and an upload
\* with an extension that is not allowed, are answered 400 before the file
\* is written and before the commit: nothing is stored.
edit_artwork(artwork_id, form, upload, ts) ==
  LET refused ==
        \/ MissingKey(form)
        \/ upload # NoUpload /\ ~allowed_ext(upload, ALLOWED_ARTWORK_EXTENSIONS)
      image_filename ==
        IF upload = NoUpload THEN artworks[artwork_id].image_filename
        ELSE save_upload(upload, ts)
  IN /\ artwork_id \in DOMAIN artworks
     /\ IF refused
        THEN /\ upload_folder' = upload_folder
             /\ artworks' = artworks
             /\ reply' = Reply(400, 0, 0)
        ELSE /\ upload_folder' = IF upload = NoUpload THEN upload_folder
                                 ELSE upload_folder \cup {image_filename}
             /\ artworks' =
                  [artworks EXCEPT ![artwork_id] =
                     [title |-> form.title, year |-> form.year,
                      medium |-> form.medium, dimensions |-> form.dimensions,
                      edition_info |-> form.edition_info,
                      status |-> FormStatus(form),
                      image_filename |-> image_filename]]
             /\ reply' = Reply(302, 0, 0)
     /\ UNCHANGED <<mergeVars, formatVars, boxVars, certVars>>

\* bulk_update_artworks: allowed_fields, as far as the rows are followed
allowed_fields == {"status", "year"}

\* the requests of bulk_update_artworks
BulkUpdates ==
  {[artwork_ids |-> ids, field |-> f, value |-> "sold"] :
     ids \in SUBSET (1..MaxArtworks), f \in {"status", "title"}}

\* bulk_update_artworks without the filter on sold artworks
BulkUpdateAll(table, data) ==
  LET found == data.artwork_ids \cap DOMAIN table
  IN IF data.artwork_ids = {} \/ data.field \notin allowed_fields
     THEN [artworks |-> table, reply |-> Reply(400, 0, 0)]
     ELSE [artworks |->
             [i \in DOMAIN table |->
                IF i \in found
                THEN [table[i] EXCEPT ![data.field] = data.value]
                ELSE table[i]],
           reply |-> Reply(200, Cardinality(found), 0)]

\* bulk_update_artworks on the table: no ids or a field that is not allowed
\* is answered 400; otherwise the field is set on every artwork named that
\* is stored and not sold, and the message counts those and the sold ones
BulkUpdate(table, data) ==
  LET found == data.artwork_ids \cap DOMAIN table
      sold_ids == {i \in found : table[i].status = "sold"}
      editable_artworks == found \ sold_ids
  IN IF data.artwork_ids = {} \/ data.field \notin allowed_fields
     THEN [artworks |-> table, reply |-> Reply(400, 0, 0)]
     ELSE [artworks |->
             [i \in DOMAIN table |->
                IF i \in editable_artworks
                THEN [table[i] EXCEPT ![data.field] = data.value]
                ELSE table[i]],
           reply |-> Reply(200, Cardinality(editable_artworks),
                           Cardinality(sold_ids))]

\* bulk_update_artworks, POST
bulk_update_artworks(data) ==
  /\ artworks' = BulkUpdate(artworks, data).artworks
  /\ reply' = BulkUpdate(artworks, data).reply
  /\ UNCHANGED <<mergeVars, formatVars, upload_folder, boxVars, certVars>>

\* delete_artwork without the deletion of the related logs
DeleteArtworkOnly(artwork_id) ==
  /\ artwork_id \in DOMAIN artworks
  /\ upload_folder' =
       IF artworks[artwork_id].image_filename = None THEN upload_folder
       ELSE upload_folder \ {artworks[artwork_id].image_filename}
  /\ artworks' = [i \in DOMAIN artworks \ {artwork_id} |-> artworks[i]]
  /\ reply' = Reply(302, 0, 0)
  /\ UNCHANGED <<mergeVars, formatVars, boxVars, certVars>>

\* delete_artwork, for a stored artwork (404 otherwise): its location
\* entries, its image file and the artwork go
delete_artwork(artwork_id) ==
  /\ artwork_id \in DOMAIN artworks
  /\ logs' = SelectSeq(logs, LAMBDA l : l.artwork_id # artwork_id)
  /\ upload_folder' =
       IF artworks[artwork_id].image_filename = None THEN upload_folder
       ELSE upload_folder \ {artworks[artwork_id].image_filename}
  /\ artworks' = [i \in DOMAIN artworks \ {artwork_id} |-> artworks[i]]
  /\ reply' = Reply(302, 0, 0)
  /\ UNCHANGED <<mergeVars, formatVars, now, resp, pending, certVars>>

\* box_label_pdf at time `at`: the token on the label.  The request changes
\* nothing in the application.
box_label_pdf(artwork_id, at) == make_box_token(SECRET_KEY, artwork_id, at)

\* the instants the clock shows: the start, the maximum age of a token
\* later, and one second after that
Instants == {0, MaxAge, MaxAge + 1}

\* the tokens on the labels printed so far
Labels ==
  {box_label_pdf(a, at) :
     a \in 1..MaxArtworks, at \in {i \in Instants : i <= now}}

\* the labels scanned at the page of an artwork: the artwork's own and
\* those of the artwork after it
LabelsAt(artwork_id) ==
  {t \in Labels : t.artwork_id \in {artwork_id, (artwork_id % MaxArtworks) + 1}}

\* template variables that are None
NoError == "<None>"

\* box_page, for a stored artwork: the template variables it renders, and the
\* location entry it adds, if any
BoxResponse(method, artwork_id, token, location, note) ==
  LET called == token # NoToken
      data == verify_box_token(SECRET_KEY, token, now)
      can_update ==
        called /\ data.raised = "" /\ data.artwork_id = artwork_id
      loc == StrippedField(location)
      success == method = "POST" /\ can_update /\ loc # <<>>
  IN [resp |->
        [status |-> 200, at |-> now, method |-> method,
         artwork_id |-> artwork_id, token |-> token, location |-> location,
         verified |-> IF ~called THEN "not called"
                      ELSE IF data.raised = "" THEN "returned"
                      ELSE data.raised,
         can_update |-> can_update,
         token_error |-> IF called /\ data.raised # ""
                         THEN "Invalid or expired QR code." ELSE NoError,
         error |-> IF method # "POST" THEN NoError
                   ELSE IF ~can_update THEN "Not authorised."
                   ELSE IF loc = <<>> THEN "Location required."
                   ELSE NoError,
         success |-> success],
      added |->
        IF success
        THEN <<[artwork_id |-> artwork_id, location |-> loc,
                note |-> StrippedField(note), changed_at |-> now]>>
        ELSE <<>>]

\* get_or_404 found no artwork
BoxNotFound(method, artwork_id, token, location) ==
  [status |-> 404, at |-> now, method |-> method, artwork_id |-> artwork_id,
   token |-> token, location |-> location, verified |-> "not called",
   can_update |-> FALSE, token_error |-> NoError, error |-> NoError,
   success |-> FALSE]

\* a token for the artwork made without the secret key
Forged(artwork_id) == [artwork_id |-> artwork_id, ts |-> 0, key |-> "guess"]

\* the location field of the form: absent, empty, blank, padded
Locations == {None, <<>>, <<" ">>, <<" ", "A", " ">>}

Notes == {<<" ", "n">>}

\* one request to box_page, while the table has room for the entry
box_request(method, artwork_id, token, location, note, room) ==
  /\ IF artwork_id \notin DOMAIN artworks
     THEN /\ resp' = BoxNotFound(method, artwork_id, token, location)
          /\ logs' = logs
     ELSE LET r == BoxResponse(method, artwork_id, token, location, note)
          IN /\ Len(logs) + Len(r.added) <= room
             /\ resp' = r.resp
             /\ logs' = logs \o r.added
  /\ UNCHANGED <<mergeVars, formatVars, artworks, upload_folder, reply, now,
                 pending, certVars>>

\* box_page, GET and POST
box_page ==
  \E method \in {"GET", "POST"}, artwork_id \in 1..MaxArtworks :
    \E token \in {NoToken, Forged(artwork_id)} \cup LabelsAt(artwork_id),
       location \in IF method = "POST" THEN Locations ELSE {None},
       note \in IF method = "POST" THEN Notes ELSE {None} :
      box_request(method, artwork_id, token, location, note, MaxLogs)

\* time passes, to a later instant
Tick ==
  /\ now' \in {i \in Instants : i > now}
  /\ UNCHANGED <<mergeVars, formatVars, artworks, upload_folder, reply, logs,
                 resp, pending, certVars>>

Init ==
  /\ MergeIdle
  /\ FormatIdle
  /\ upload_folder = {}
  /\ AppInit

Next ==
  \/ add_artwork(PlainForm, NoUpload, UploadStamp)
  \/ \E artwork_id \in 1..MaxArtworks : delete_artwork(artwork_id)
  \/ box_page
  \/ Tick

Spec == Init /\ [][Next]_vars

\* ------------------------------------------------ the box page, claims
\* the token of the last request carries the application's signature
Signed == resp.token.key = SECRET_KEY

\* the token of the last request was older than the maximum age
Expired == resp.at - resp.token.ts > MaxAge

\* the last request was to a stored artwork and presented a token
TokenPresented == resp.status = 200 /\ resp.token # NoToken

\* what the box page shows of the outcome of a request
Reported(r) == <<r.can_update, r.token_error, r.error, r.success>>

\* C8: a location entry is added only by a POST whose token is signed by
\* the application, no older than the maximum age and made for the artwork
\* of the path, and the entry is for that artwork; a POST to a stored artwork
\* with any other token, or none, adds nothing and reports "Not authorised.".
C8_OnlyValidTokenAdds ==
  [][/\ Len(logs') > Len(logs)
        => /\ resp'.method = "POST"
           /\ resp'.token.key = SECRET_KEY
           /\ now' - resp'.token.ts <= MaxAge
           /\ resp'.token.artwork_id = resp'.artwork_id
           /\ logs' = Append(logs, logs'[Len(logs')])
           /\ logs'[Len(logs')].artwork_id = resp'.artwork_id
     /\ (/\ resp' # resp
         /\ resp'.method = "POST"
         /\ resp'.status = 200
         /\ ~(/\ resp'.token.key = SECRET_KEY
              /\ now' - resp'.token.ts <= MaxAge
              /\ resp'.token.artwork_id = resp'.artwork_id))
        => logs' = logs /\ resp'.error = "Not authorised."]_vars

\* an entry is stored, and the last request, a POST with a fresh token
\* signed for another artwork, was refused
C8_Witness ==
  /\ Len(logs) > 0
  /\ resp.method = "POST"
  /\ resp.status = 200
  /\ Signed /\ ~Expired
  /\ resp.token.artwork_id # resp.artwork_id
  /\ resp.error = "Not authorised."

\* what verify_box_token signals for the three kinds of failing token, as
\* the claim has it
VerifySignals ==
  TokenPresented
  => /\ (Signed /\ Expired) => resp.verified = "SignatureExpired"
     /\ ~Signed => resp.verified = "BadSignature"
     /\ (Signed /\ ~Expired /\ resp.token.artwork_id # resp.artwork_id)
        => ~resp.can_update
     /\ resp.can_update
        <=> (Signed /\ ~Expired /\ resp.token.artwork_id = resp.artwork_id)

\* C9 as claimed: the expired, the invalid and the wrong-artwork token are
\* each told from success, and what the box page reports for an expired
\* token differs from what it reports for an invalid one.
C9_Distinguishable ==
  [][/\ VerifySignals'
     /\ (/\ resp.verified = "SignatureExpired"
         /\ resp'.verified = "BadSignature"
         /\ resp'.method = resp.method)
        => Reported(resp') # Reported(resp)]_vars

\* C9: verify_box_token raises SignatureExpired for a signed token older
\* than the maximum age, BadSignature for a token that is not signed by the
\* application, and returns the payload of every other token, also when it
\* names another artwork; the box page allows the update only if the payload
\* names the artwork of the path, reports "Invalid or expired QR code." for
\* both exceptions alike, and reports no token error for the token of
\* another artwork.
C9_Outcomes ==
  TokenPresented
  => /\ resp.verified = IF ~Signed THEN "BadSignature"
                        ELSE IF Expired THEN "SignatureExpired"
                        ELSE "returned"
     /\ resp.can_update
        <=> (resp.verified = "returned"
             /\ resp.token.artwork_id = resp.artwork_id)
     /\ resp.token_error = IF resp.verified = "returned" THEN NoError
                           ELSE "Invalid or expired QR code."

\* an expired token has been presented to the box page
C9_Witness ==
  /\ TokenPresented
  /\ Signed /\ Expired
  /\ resp.verified = "SignatureExpired"
  /\ resp.token_error = "Invalid or expired QR code."

\* C10: every stored location entry has a location that is not empty and
\* has no white space at either end; an authorised POST whose location is
\* absent, empty or blank stores nothing and reports "Location required.",
\* and the location stored by a POST is the one sent, trimmed.
C10_LocationRequired ==
  [][/\ \A i \in 1..Len(logs') :
          /\ logs'[i].location # <<>>
          /\ ~IsSpace(logs'[i].location[1])
          /\ ~IsSpace(logs'[i].location[Len(logs'[i].location)])
     /\ (/\ resp' # resp
         /\ resp'.method = "POST"
         /\ resp'.can_update
         /\ Blank(resp'.location))
        => /\ logs' = logs
           /\ resp'.error = "Location required."
           /\ ~resp'.success
     /\ Len(logs') > Len(logs)
        => IsTrimOf(logs'[Len(logs')].location, resp'.location)]_vars

\* an entry is stored, and the last request, an authorised POST without a
\* location, was told so
C10_Witness ==
  /\ Len(logs) > 0
  /\ resp.can_update
  /\ Blank(resp.location)
  /\ resp.error = "Location required."

\* ------------------------------------------------ the location history
\* LocationLog.query.filter_by(artwork_id=artwork_id), in insertion order
LogsOf(table, artwork_id) ==
  SelectSeq(table, LAMBDA l : l.artwork_id = artwork_id)

Range(s) == {s[i] : i \in 1..Len(s)}

\* current_location with the order turned round
CurrentEarliest(table, artwork_id) ==
  LET rows == Range(LogsOf(table, artwork_id))
  IN {l \in rows : ~\E m \in rows : m.changed_at < l.changed_at}

\* current_location: the rows that can come first when the artwork's
\* entries are ordered by changed_at, latest first (none when there is no
\* entry; the order of entries of the same instant is the database's)
current_location(table, artwork_id) ==
  LET rows == Range(LogsOf(table, artwork_id))
  IN {l \in rows : ~\E m \in rows : m.changed_at > l.changed_at}

\* the location typed in at a scan
PaddedLocation == <<" ", "A", " ">>

\* ------------------------------------------------ the certificate template
\* json.dumps of the design blob, null or a string: the string between
\* quotes, its quotes and backslashes behind a backslash
json_dumps(design) ==
  IF design = None THEN <<"n", "u", "l", "l">>
  ELSE <<DoubleQuote>>
       \o Flatten([i \in 1..Len(design) |->
                     IF design[i] \in {DoubleQuote, "\\"}
                     THEN <<"\\", design[i]>> ELSE <<design[i]>>])
       \o <<DoubleQuote>>

\* the characters of the JSON string whose opening quote is before index i
\* of text, when the string ends the text; Raised when it does not
RECURSIVE JsonChars(_, _)
JsonChars(text, i) ==
  IF i > Len(text) THEN Raised
  ELSE IF text[i] = DoubleQuote
    THEN IF i = Len(text) THEN <<>> ELSE Raised
  ELSE LET esc == text[i] = "\\"
           rest == JsonChars(text, IF esc THEN i + 2 ELSE i + 1)
       IN IF (esc /\ i = Len(text)) \/ rest = Raised THEN Raised
          ELSE <<text[IF esc THEN i + 1 ELSE i]>> \o rest

\* json.loads of a stored text: null, a string, or ValueError
json_loads(text) ==
  IF text = <<"n", "u", "l", "l">> THEN None
  ELSE IF text # <<>> /\ text[1] = DoubleQuote THEN JsonChars(text, 2)
  ELSE Raised

\* template_json_for_editor: the design the editor is sent
template_json_for_editor(tpl) ==
  IF tpl.design_json \in {None, <<>>} THEN None
  ELSE LET design == json_loads(tpl.design_json)
       IN IF design = Raised THEN None ELSE design

\* get_or_create_unlayer_template with a starter template in the new row
CreateWithStarter(table) ==
  IF 1 \in DOMAIN table THEN table
  ELSE table @@ (1 :> [design_json |-> json_dumps(<<>>), html |-> <<>>])

\* get_or_create_unlayer_template: the table with row 1 in it
get_or_create_unlayer_template(table) ==
  IF 1 \in DOMAIN table THEN table ELSE table @@ (1 :> NoRow)

\* api_certificate_template_get, up to the answer when the row is there
\* (the row is read once and the answer is made from it), and up to
\* query.get(1) of get_or_create_unlayer_template when it is not
api_certificate_template_get(c) ==
  /\ calls[c].pc \in {"idle", "done"}
  /\ calls' =
       [calls EXCEPT ![c] =
          IF 1 \in DOMAIN unlayer_templates
          THEN [NoCall EXCEPT
                  !.pc = "done", !.op = "GET", !.status = 200,
                  !.body = template_json_for_editor(unlayer_templates[1])]
          ELSE [NoCall EXCEPT !.pc = "creating", !.op = "GET"]]
  /\ UNCHANGED <<mergeVars, formatVars, artworks, upload_folder, reply, boxVars,
                 unlayer_templates, render, saved>>

\* api_certificate_template_save, up to query.get(1) of
\* get_or_create_unlayer_template: the row, if there is one, is loaded
api_certificate_template_save(c, payload) ==
  /\ calls[c].pc \in {"idle", "done"}
  /\ calls' =
       [calls EXCEPT ![c] =
          IF 1 \in DOMAIN unlayer_templates
          THEN [NoCall EXCEPT !.pc = "loaded", !.op = "POST",
                              !.payload = payload,
                              !.loaded = unlayer_templates[1]]
          ELSE [NoCall EXCEPT !.pc = "creating", !.op = "POST",
                              !.payload = payload]]
  /\ UNCHANGED <<mergeVars, formatVars, artworks, upload_folder, reply, boxVars,
                 unlayer_templates, render, saved>>

\* get_or_create_unlayer_template, lines 33 to 35, for a request that found
\* no row: the row is inserted and committed, which leaves the session's
\* objects expired; when another request has inserted it meanwhile, the
\* primary key refuses the second row, the commit raises IntegrityError and
\* the request is answered 500
template_insert(c) ==
  /\ calls[c].pc = "creating"
  /\ IF 1 \in DOMAIN unlayer_templates
     THEN /\ calls' = [calls EXCEPT ![c] =
                         [NoCall EXCEPT !.pc = "done", !.op = calls[c].op,
                                        !.status = 500,
                                        !.raised = "IntegrityError"]]
          /\ UNCHANGED unlayer_templates
     ELSE /\ unlayer_templates' =
               get_or_create_unlayer_template(unlayer_templates)
          /\ calls' = [calls EXCEPT ![c].pc = "created"]
  /\ UNCHANGED <<mergeVars, formatVars, artworks, upload_folder, reply, boxVars,
                 render, saved>>

\* api_certificate_template_get, after it has created the row: the expired
\* row is read again for the answer
api_certificate_template_get_created(c) ==
  /\ calls[c].pc = "created"
  /\ calls[c].op = "GET"
  /\ calls' =
       [calls EXCEPT ![c] =
          [NoCall EXCEPT
             !.pc = "done", !.op = "GET", !.status = 200,
             !.body = template_json_for_editor(unlayer_templates[1])]]
  /\ UNCHANGED <<mergeVars, formatVars, artworks, upload_folder, reply, boxVars,
                 unlayer_templates, render, saved>>

\* api_certificate_template_save, lines 55 to 58, for the payload
\* request.get_json gave: "400" for a payload that is empty or lacks a
\* field, "TypeError" where `in` or the subscript is not defined for the
\* payload (a number has no `in`, a list no string subscript), else "ok"
ValidatePayload(payload) ==
  LET has(name) == IF payload.json = "array" THEN name \in payload.items
                   ELSE payload[name] # Absent
  IN IF payload.json # "number" /\ ~has("design_json") /\ ~has("html")
          /\ payload.items = {}
       THEN "400"
     ELSE IF payload.json = "number" THEN "TypeError"
     ELSE IF ~has("design_json") \/ ~has("html") THEN "400"
     ELSE IF payload.json = "array" THEN "TypeError"
     ELSE "ok"

\* api_certificate_template_save, from line 55 on: the payload is looked
\* at, the two attributes are set and the commit writes the row.  The UPDATE
\* names the columns whose attribute differs from the value loaded, and
\* both columns when the row was created by this request and has expired.
api_certificate_template_save_commit(c) ==
  /\ calls[c].pc \in {"loaded", "created"}
  /\ calls[c].op = "POST"
  /\ LET payload == calls[c].payload
         outcome == ValidatePayload(payload)
         fresh == calls[c].pc = "created"
         row == unlayer_templates[1]
         design_json == json_dumps(payload.design_json)
     IN IF outcome = "ok"
        THEN /\ unlayer_templates' =
                  [unlayer_templates EXCEPT ![1] =
                     [design_json |->
                        IF fresh \/ design_json # calls[c].loaded.design_json
                        THEN design_json ELSE row.design_json,
                      html |->
                        IF fresh \/ payload.html # calls[c].loaded.html
                        THEN payload.html ELSE row.html]]
             /\ saved' = payload
             /\ calls' = [calls EXCEPT ![c] =
                            [NoCall EXCEPT !.pc = "done", !.op = "POST",
                                           !.status = 200]]
        ELSE /\ calls' = [calls EXCEPT ![c] =
                            [NoCall EXCEPT
                               !.pc = "done", !.op = "POST",
                               !.status = IF outcome = "400" THEN 400
                                          ELSE 500,
                               !.raised = IF outcome = "400" THEN ""
                                          ELSE outcome]]
             /\ UNCHANGED <<unlayer_templates, saved>>
  /\ UNCHANGED <<mergeVars, formatVars, artworks, upload_folder, reply, boxVars,
                 render>>

\* ------------------------------------------------ certificate requests
\* the HTML the designer exports: the artwork's image
ImageTemplate ==
  TextOf(<<Raw(<<"<", "i", "m", "g", " ", "s", "r", "c", "=", "\"">>),
           Token(2, 9, <<>>, <<>>), Raw(<<"\"", ">">>)>>)

SavePayloads == {Obj(<<"D">>, ImageTemplate)}

\* certificate_render and certificate_pdf with the template row in hand:
\* 400 when it has no html, else on to the os.path.isfile test of
\* artwork_image_data_uri (line 86)
RenderLoaded(kind, artwork_id, tpl) ==
  IF tpl.html \in {None, <<>>}
  THEN [NoRender EXCEPT !.pc = "done", !.kind = kind,
                        !.artwork_id = artwork_id, !.status = 400]
  ELSE [NoRender EXCEPT
          !.pc = "checked", !.kind = kind, !.artwork_id = artwork_id,
          !.artwork = [id |-> artwork_id] @@ artworks[artwork_id],
          !.html = tpl.html,
          !.isfile = IsFile(upload_folder,
                            artworks[artwork_id].image_filename)]

\* certificate_render and certificate_pdf, up to the os.path.isfile test
\* when the template row is there, and up to query.get(1) of
\* get_or_create_unlayer_template when it is not; 404 for an artwork that
\* is not stored
CertificateRequest(kind, artwork_id) ==
  /\ render.pc \in {"idle", "done"}
  /\ render' =
       IF artwork_id \notin DOMAIN artworks
         THEN [NoRender EXCEPT !.pc = "done", !.kind = kind,
                               !.artwork_id = artwork_id, !.status = 404]
       ELSE IF 1 \in DOMAIN unlayer_templates
         THEN RenderLoaded(kind, artwork_id, unlayer_templates[1])
       ELSE [NoRender EXCEPT !.pc = "creating", !.kind = kind,
                             !.artwork_id = artwork_id]
  /\ UNCHANGED <<mergeVars, formatVars, artworks, upload_folder, reply, boxVars,
                 unlayer_templates, calls, saved>>

certificate_render(artwork_id) == CertificateRequest("render", artwork_id)

certificate_pdf(artwork_id) == CertificateRequest("pdf", artwork_id)

\* get_or_create_unlayer_template, lines 33 to 35, in a certificate request
\* that found no row: as in template_insert
certificate_insert ==
  /\ render.pc = "creating"
  /\ IF 1 \in DOMAIN unlayer_templates
     THEN /\ render' = [render EXCEPT !.pc = "done", !.status = 500,
                                      !.raised = "IntegrityError"]
          /\ UNCHANGED unlayer_templates
     ELSE /\ unlayer_templates' =
               get_or_create_unlayer_template(unlayer_templates)
          /\ render' = [render EXCEPT !.pc = "created"]
  /\ UNCHANGED <<mergeVars, formatVars, artworks, upload_folder, reply, boxVars,
                 calls, saved>>

\* a certificate request after it has created the row: the commit has left
\* the row and the artwork expired, and both are read again when the
\* request goes on: the row for `not tpl.html`, the artwork, when there is
\* html, for its image_filename, which raises ObjectDeletedError when the
\* artwork has been deleted meanwhile
certificate_created ==
  /\ render.pc = "created"
  /\ render' =
       IF unlayer_templates[1].html \notin {None, <<>>}
          /\ render.artwork_id \notin DOMAIN artworks
       THEN [render EXCEPT !.pc = "done", !.status = 500,
                           !.raised = "ObjectDeletedError"]
       ELSE RenderLoaded(render.kind, render.artwork_id,
                         unlayer_templates[1])
  /\ UNCHANGED <<mergeVars, formatVars, artworks, upload_folder, reply, boxVars,
                 unlayer_templates, calls, saved>>

\* certificate_render, from line 89 of artwork_image_data_uri on: the file
\* is opened, the template merged and the response sent; an exception
\* leaves the view and Flask answers 500
certificate_render_read ==
  /\ render.pc = "checked"
  /\ render.kind = "render"
  /\ LET out == merge_unlayer_html(
                  render.html, render.artwork, ARTIST_NAME, render.isfile,
                  IsFile(upload_folder, render.artwork.image_filename))
     IN render' = [render EXCEPT !.pc = "done",
                                 !.status = IF out.raised = "" THEN 200
                                            ELSE 500,
                                 !.raised = out.raised]
  /\ UNCHANGED <<mergeVars, formatVars, artworks, upload_folder, reply, boxVars,
                 unlayer_templates, calls, saved>>

\* ------------------------------------------------ the renderer
\* the calls of pdf_from_html_with_playwright, in order
PlaywrightCalls ==
  <<"sync_playwright", "launch", "new_page", "set_content",
    "wait_for_timeout", "pdf", "close">>

\* what the renderer's exceptions say: a timeout, and the end of the
\* message of a launch without an installed browser
ErrorTexts ==
  {<<"T", "i", "m", "e", "o", "u", "t">>, <<"<", "3", " ", "T", "e", "a", "m">>}

\* the body of the answer of certificate_pdf to an exception
FailureHead ==
  <<"C", "e", "r", "t", "i", "f", "i", "c", "a", "t", "e", " ", "P", "D",
    "F", " ", "g", "e", "n", "e", "r", "a", "t", "i", "o", "n", " ", "f",
    "a", "i", "l", "e", "d", ".", "\n", "\n", "C", "h", "e", "c", "k", " ",
    "l", "o", "g", "s", " ", "f", "o", "r", " ", "t", "h", "e", " ", "f",
    "u", "l", "l", " ", "t", "r", "a", "c", "e", "b", "a", "c", "k", ".",
    "\n", "\n", "E", "r", "r", "o", "r", ":", " ">>

\* the answer of certificate_pdf to an exception, without the exception
FailureBodyWithoutError(message) == FailureHead \o <<"\n">>

\* the answer of certificate_pdf to the exception that says `message`
FailureBody(message) == FailureHead \o html_escape(message) \o <<"\n">>

\* the bytes page.pdf returns
PdfBytes == <<"%PDF">>

\* the end of the `with` block without the end of the browser
ExitLeavingBrowser(browser) == browser

\* the end of the block `with sync_playwright() as p`: Playwright is
\* stopped, which ends the browser it has launched if it is still open
sync_playwright_exit(browser) ==
  IF browser = "open" THEN "closed" ELSE browser

\* certificate_pdf, from line 89 of artwork_image_data_uri to the call of
\* pdf_from_html_with_playwright: the file is opened and the template
\* merged; an exception is caught and answered 500
certificate_pdf_merge ==
  /\ render.pc = "checked"
  /\ render.kind = "pdf"
  /\ LET out == merge_unlayer_html(
                  render.html, render.artwork, ARTIST_NAME, render.isfile,
                  IsFile(upload_folder, render.artwork.image_filename))
     IN render' =
          IF out.raised # ""
          THEN [render EXCEPT !.pc = "done", !.status = 500,
                              !.raised = out.raised,
                              !.body = FailureBody(<<out.raised>>)]
          ELSE [render EXCEPT !.pc = "rendering", !.step = 1,
                              !.invoked = @ + 1]
  /\ UNCHANGED <<mergeVars, formatVars, artworks, upload_folder, reply, boxVars,
                 unlayer_templates, calls, saved>>

\* pdf_from_html_with_playwright: its next call, which returns or raises
\* an error that says `message`; launch opens the browser, close closes it
playwright_call(fails, message) ==
  /\ render.pc = "rendering"
  /\ LET call == PlaywrightCalls[render.step]
     IN render' =
          IF fails
            THEN [render EXCEPT !.pc = "leaving", !.error = message]
          ELSE [render EXCEPT
                  !.pc = IF call = "close" THEN "leaving" ELSE "rendering",
                  !.step = IF call = "close" THEN @ ELSE @ + 1,
                  !.browser = IF call = "launch" THEN "open"
                              ELSE IF call = "close" THEN "closed"
                              ELSE @]
  /\ UNCHANGED <<mergeVars, formatVars, artworks, upload_folder, reply, boxVars,
                 unlayer_templates, calls, saved>>

\* pdf_from_html_with_playwright leaves its `with` block, with the PDF or
\* with the exception, and certificate_pdf answers: the PDF, or 500 and the
\* text of the exception
playwright_leave ==
  /\ render.pc = "leaving"
  /\ render' =
       IF render.error = None
       THEN [render EXCEPT !.pc = "done", !.status = 200,
                           !.browser = sync_playwright_exit(@),
                           !.body = PdfBytes]
       ELSE [render EXCEPT !.pc = "done", !.status = 500,
                           !.browser = sync_playwright_exit(@),
                           !.raised = "playwright.Error",
                           !.body = FailureBody(render.error)]
  /\ UNCHANGED <<mergeVars, formatVars, artworks, upload_folder, reply, boxVars,
                 unlayer_templates, calls, saved>>

\* the file names of the images uploaded
CertUploads ==
  {NoUpload, <<"a", ".", "p", "n", "g">>, <<Kanji, ".", "j", "p", "g">>}

NextCert ==
  \/ \E upload \in CertUploads : add_artwork(PlainForm, upload, UploadStamp)
  \/ \E artwork_id \in 1..MaxArtworks : delete_artwork(artwork_id)
  \/ \E payload \in SavePayloads :
       api_certificate_template_save("tab1", payload)
  \/ api_certificate_template_get("tab1")
  \/ template_insert("tab1")
  \/ api_certificate_template_get_created("tab1")
  \/ api_certificate_template_save_commit("tab1")
  \/ \E artwork_id \in 1..MaxArtworks : certificate_render(artwork_id)
  \/ \E artwork_id \in 1..MaxArtworks : certificate_pdf(artwork_id)
  \/ certificate_insert
  \/ certificate_created
  \/ certificate_render_read
  \/ certificate_pdf_merge
  \/ \E message \in ErrorTexts : playwright_call(TRUE, message)
  \/ playwright_call(FALSE, None)
  \/ playwright_leave

SpecCert == Init /\ [][NextCert]_vars

\* ------------------------------------------------ the image step, claims
\* C7: no certificate-render request is failed by the image step: whatever
\* the artwork's image reference and the upload folder are, and whatever
\* happens to the file during the request, artwork_image_data_uri raises
\* nothing.
C7_ImageStepNeverRaises ==
  render.pc = "done" => render.raised \notin {"IndexError", "OSError"}

\* ------------------------------------------------ certificate requests, claims
\* the design and the html stored: those of the row, none without a row
StoredTemplate(table) == IF 1 \in DOMAIN table THEN table[1] ELSE NoRow

\* C13: the certificate template is a singleton: whatever requests have
\* run, and however two first accesses have interleaved, the table holds
\* at most one row, with id 1, and until a save has been acknowledged that
\* row has neither a design nor html.
C13_Singleton ==
  /\ Cardinality(DOMAIN unlayer_templates) <= 1
  /\ DOMAIN unlayer_templates \subseteq {1}
  /\ saved = NoPayload => StoredTemplate(unlayer_templates) = NoRow

\* two first accesses have interleaved: the tab's INSERT came second and was
\* refused, and the one row is there, empty
C13_Witness ==
  /\ calls["tab1"].raised = "IntegrityError"
  /\ DOMAIN unlayer_templates = {1}
  /\ saved = NoPayload
  /\ render.pc = "created"

\* C16: a certificate-render or certificate request for an artwork that is
\* not stored is answered 404, whatever the template; one for a stored
\* artwork is answered 400 as long as no template has been saved.
C16_MissingTemplate ==
  [][(render' # render /\ render'.pc = "done") =>
       LET first == render.pc \in {"idle", "done"}
           found == ~first \/ render'.artwork_id \in DOMAIN artworks
       IN /\ ~found => render'.status = 404
          /\ (found /\ saved = NoPayload) => render'.status = 400]_vars

\* C18: pdf_from_html_with_playwright leaves no browser behind: when the
\* certificate request it was called for is over, with the PDF or with an
\* error of launch, new_page, set_content, the wait, pdf or close, the
\* browser the call launched is not open.
C18_BrowserTornDown ==
  (render.kind = "pdf" /\ render.pc = "done") => render.browser # "open"

\* a call after the launch has raised, and the browser is closed
C18_Witness ==
  /\ render.pc = "done"
  /\ render.error # None
  /\ PlaywrightCalls[render.step] \in {"new_page", "set_content", "pdf"}
  /\ render.browser = "closed"

\* C19, as claimed: no step of a certificate-render or certificate request
\* changes the template table (the row, its design, its html), an artwork
\* or a location entry.
C19_ReadOnly ==
  [][render' # render =>
       /\ unlayer_templates' = unlayer_templates
       /\ artworks' = artworks
       /\ logs' = logs]_vars

\* C19, amended: no step of a certificate-render or certificate request
\* changes the design or the html stored, an artwork or a location entry;
\* the one change it makes to the template table is to add the empty row
\* when there is none.
C19_ContentReadOnly ==
  [][render' # render =>
       /\ StoredTemplate(unlayer_templates') = StoredTemplate(unlayer_templates)
       /\ unlayer_templates' # unlayer_templates =>
            (unlayer_templates = <<>> /\ DOMAIN unlayer_templates' = {1})
       /\ artworks' = artworks
       /\ logs' = logs]_vars

\* a certificate request has just added the empty row
C19_Witness ==
  /\ render.pc = "created"
  /\ unlayer_templates = (1 :> NoRow)
  /\ render.artwork_id \in DOMAIN artworks

\* the renderer has failed in the certificate request that is over
RendererFailed ==
  render.kind = "pdf" /\ render.pc = "done" /\ render.error # None

TemplatePayloads ==
  {Obj(<<"D">>, <<"p">>), Obj(<<"E", DoubleQuote>>, <<"q">>),
   Obj(<<"D">>, <<>>),
   NoPayload, Obj(<<"D">>, Absent), Obj(Absent, <<"p">>),
   [NoPayload EXCEPT !.json = "number"],
   [NoPayload EXCEPT !.json = "array", !.items = {"design_json", "html"}]}

NextTemplate ==
  \/ \E c \in Clients : api_certificate_template_get(c)
  \/ \E c \in Clients, payload \in TemplatePayloads :
       api_certificate_template_save(c, payload)
  \/ \E c \in Clients : template_insert(c)
  \/ \E c \in Clients : api_certificate_template_get_created(c)
  \/ \E c \in Clients : api_certificate_template_save_commit(c)

SpecTemplate == Init /\ [][NextTemplate]_vars

\* ------------------------------------------------ the template, claims
\* the payload lacks the design blob or the html
LacksField(payload) == payload.design_json = Absent \/ payload.html = Absent

\* C14: a save is a full overwrite: once a save of D and H has been
\* acknowledged, and until the next one is, the html stored (which is what
\* a certificate merges) is H and every GET is answered D; and a GET is
\* answered null only when there is no design stored or the text stored
\* does not parse.
C14_FullOverwrite ==
  [][/\ saved # NoPayload =>
          StoredTemplate(unlayer_templates).html = saved.html
     /\ \A c \in Clients :
          (calls'[c] # calls[c] /\ calls'[c].pc = "done"
             /\ calls'[c].op = "GET" /\ calls'[c].status = 200) =>
            /\ saved # NoPayload => calls'[c].body = saved.design_json
            /\ calls'[c].body = None =>
                 LET text == unlayer_templates'[1].design_json
                 IN text = None \/ json_loads(text) = Raised]_vars

\* C15: a save whose payload lacks a field is answered 400, and no step of
\* it changes the design or the html stored; a save whose payload has both
\* fields is acknowledged.
C15_Validation ==
  [][\A c \in Clients :
       (calls[c].op = "POST" /\ calls[c].pc \in {"loaded", "creating", "created"}
          /\ calls'[c] # calls[c]) =>
         /\ LacksField(calls[c].payload) =>
              StoredTemplate(unlayer_templates')
                = StoredTemplate(unlayer_templates)
         /\ (calls[c].pc # "creating" /\ calls'[c].pc = "done") =>
              calls'[c].status =
                IF LacksField(calls[c].payload) THEN 400 ELSE 200]_vars

\* C20: saves are atomic: the design and the html stored are those of one
\* save, whatever requests have run side by side.
C20_AtomicSaves ==
  StoredTemplate(unlayer_templates) = NoRow
  \/ \E payload \in TemplatePayloads :
       /\ ~LacksField(payload)
       /\ unlayer_templates[1] =
            [design_json |-> json_dumps(payload.design_json),
             html |-> payload.html]

\* box_page, opened from the label printed now: a look, or a new location
box_scan ==
  \E method \in {"GET", "POST"}, artwork_id \in 1..MaxArtworks :
    \E note \in IF method = "POST" THEN Notes ELSE {None} :
      box_request(method, artwork_id, box_label_pdf(artwork_id, now),
                  IF method = "POST" THEN PaddedLocation ELSE None, note,
                  MaxLogs + 1)

NextLog ==
  \/ add_artwork(PlainForm, NoUpload, UploadStamp)
  \/ \E artwork_id \in 1..MaxArtworks :
       edit_artwork(artwork_id, EditForm, NoUpload, UploadStamp)
  \/ \E data \in BulkUpdates : bulk_update_artworks(data)
  \/ \E artwork_id \in 1..MaxArtworks : delete_artwork(artwork_id)
  \/ box_scan
  \/ Tick

SpecLog == Init /\ [][NextLog]_vars

\* ------------------------------------------------ the location history, claims
\* the entries of the table that belong to the artworks ids
EntriesOf(table, ids) == SelectSeq(table, LAMBDA l : l.artwork_id \in ids)

\* C11: deleting an artwork takes its location history with it: in the
\* step in which artwork A leaves the table, every entry of A leaves as
\* well, and the entries of every other artwork stay as they were.
C11_DeleteCascades ==
  [][\A a \in DOMAIN artworks :
       a \notin DOMAIN artworks' =>
         /\ LogsOf(logs', a) = <<>>
         /\ \A b \in (1..MaxArtworks) \ {a} :
              LogsOf(logs', b) = LogsOf(logs, b)]_vars

\* the artwork whose location was stored last has been deleted with its
\* entries, and entries of another artwork are still there
C11_Witness ==
  /\ resp.success
  /\ resp.artwork_id \notin DOMAIN artworks
  /\ LogsOf(logs, resp.artwork_id) = <<>>
  /\ logs # <<>>

\* C12: location entries are append-only: a step keeps every entry whose
\* artwork is still stored, unchanged and in place, so that an entry goes
\* only with its artwork; and when a box POST has stored an entry, the
\* current location of that artwork is one of its entries and carries the
\* largest timestamp among them.
C12_AppendOnly ==
  [][/\ LET kept == EntriesOf(logs, DOMAIN artworks')
        IN /\ Len(logs') >= Len(kept)
           /\ SubSeq(logs', 1, Len(kept)) = kept
     /\ (resp'.success /\ Len(logs') > Len(logs)) =>
          LET a == resp'.artwork_id
              mine == Range(LogsOf(logs', a))
              latest == current_location(logs', a)
          IN /\ latest # {}
             /\ latest \subseteq mine
             /\ \A l \in latest :
                  l.changed_at = Max({m.changed_at : m \in mine})]_vars

\* after a successful POST the artwork has entries of two instants
C12_Witness ==
  /\ resp.success
  /\ resp.at = now
  /\ \E l, m \in Range(LogsOf(logs, resp.artwork_id)) :
       l.changed_at < m.changed_at

\* ------------------------------------------------ the artwork routes
\* the forms posted to add_artwork and edit_artwork: without a status, with
\* one of the three the list filters on, with another one, and without a
\* title or a medium
ArtworkForms ==
  {PlainForm,
   [PlainForm EXCEPT !.title = Absent],
   [PlainForm EXCEPT !.medium = Absent]}
  \cup
  {[title |-> PlainForm.title, year |-> None, medium |-> PlainForm.medium,
    dimensions |-> None, edition_info |-> None, status |-> st] :
     st \in {"sold", "archived"}}

\* the file of the form: none, an image, a file that is no image
ArtworkUploads ==
  {NoUpload, <<"i", ".", "j", "p", "g">>, <<"i", ".", "g", "i", "f">>}

\* the JSON bodies posted to bulk_update_artworks that name the status
BulkStatus ==
  {[artwork_ids |-> ids, field |-> "status", value |-> v] :
     ids \in SUBSET (1..MaxArtworks), v \in {"for_sale", "Sold"}}

\* and those that name another field, one that is allowed and one that is not
BulkFields ==
  {[artwork_ids |-> ids, field |-> f, value |-> <<"1", "9">>] :
     ids \in SUBSET (1..MaxArtworks), f \in {"year", "title"}}

NextArtworks ==
  \/ \E form \in ArtworkForms, upload \in ArtworkUploads :
       add_artwork(form, upload, UploadStamp)
  \/ \E artwork_id \in 1..MaxArtworks :
       \E form \in ArtworkForms, upload \in ArtworkUploads :
         edit_artwork(artwork_id, form, upload, UploadStamp)
  \/ \E data \in BulkStatus : bulk_update_artworks(data)
  \/ \E data \in BulkFields : bulk_update_artworks(data)
  \/ \E artwork_id \in 1..MaxArtworks : delete_artwork(artwork_id)

SpecArtworks == Init /\ [][NextArtworks]_vars

\* ------------------------------------------------ the artwork routes, claims
\* C21: every stored artwork has a title and a medium; a request that is
\* answered 400 (among them every add and edit without a title or a medium)
\* stores nothing, neither an artwork nor a file; and an artwork keeps its
\* id: an id leaves the table only with a deletion.
C21_TitleAndMedium ==
  [][/\ \A a \in DOMAIN artworks' :
          /\ artworks'[a].title \notin {None, Absent}
          /\ artworks'[a].medium \notin {None, Absent}
     /\ reply'.status = 400 =>
          /\ artworks' = artworks
          /\ upload_folder' = upload_folder
     /\ Cardinality(DOMAIN artworks') >= Cardinality(DOMAIN artworks) =>
          DOMAIN artworks \subseteq DOMAIN artworks']_vars

\* the artworks of the table that are sold
SoldIn(table) == {a \in DOMAIN table : table[a].status = "sold"}

\* what the bulk update data does to the table: the sold artworks keep all
\* their fields, a field that is not allowed is answered 400, a request
\* answered 400 changes nothing, and one answered 200 sets the field on the
\* stored artworks it names that are not sold and on no other
BulkFrame(table, data) ==
  LET r == BulkUpdate(table, data)
      named == data.artwork_ids \cap DOMAIN table
  IN /\ DOMAIN r.artworks = DOMAIN table
     /\ \A a \in SoldIn(table) : r.artworks[a] = table[a]
     /\ data.field \notin
          {"status", "for_sale", "price", "notes", "series", "year"} =>
            r.reply.status = 400
     /\ r.reply.status = 400 => r.artworks = table
     /\ r.reply.status = 200 =>
          \A a \in DOMAIN table :
            r.artworks[a] =
              IF a \in named \ SoldIn(table)
              THEN [table[a] EXCEPT ![data.field] = data.value]
              ELSE table[a]

\* the artworks the bulk update data modifies
ModifiedBy(table, data) ==
  {a \in DOMAIN table : BulkUpdate(table, data).artworks[a] # table[a]}

BulkCounts(table, data) ==
  LET r == BulkUpdate(table, data)
      named == data.artwork_ids \cap DOMAIN table
  IN r.reply.status = 200 =>
       /\ r.reply.updated = Cardinality(named \ SoldIn(table))
       /\ r.reply.skipped = Cardinality(named \cap SoldIn(table))
       /\ ModifiedBy(table, data) \subseteq named \ SoldIn(table)

StatusFilters == {"working", "for_sale", "sold"}

\* artwork_list for a status of StatusFilters: the artworks it lists
artwork_list(table, status) == {a \in DOMAIN table : table[a].status = status}

\* C24: the status of every stored artwork is one of working, for_sale and
\* sold, so that the artwork is listed under exactly one of the three
\* filters of the artwork list.
C24_StatusListed ==
  \A a \in DOMAIN artworks :
    /\ artworks[a].status \in StatusFilters
    /\ Cardinality({st \in StatusFilters :
                      a \in artwork_list(artworks, st)}) = 1

\* ------------------------------------------------ uploads under the clock
\* what datetime.utcnow() gives when the clock shows 0, in seconds since
\* 1970-01-01: 2024-01-02 03:04:05
StartTime == 1704164645

\* the decimal digits of n, with zeros in front up to the width w
ZeroPadded(n, w) ==
  LET digits == IntText(n)
  IN [i \in 1..(w - Len(digits)) |-> "0"] \o digits

\* datetime.utcnow().strftime("%Y%m%d%H%M%S") when the clock shows `at`:
\* the day number becomes year, month and day in the Gregorian calendar
\* (counted in eras of 400 years from 0000-03-01), the rest of the seconds
\* hour, minute and second
strftime(at) ==
  LET t == StartTime + at
      z == (t \div 86400) + 719468
      era == z \div 146097
      doe == z - era * 146097
      yoe == (doe - doe \div 1460 + doe \div 36524 - doe \div 146096) \div 365
      doy == doe - (365 * yoe + yoe \div 4 - yoe \div 100)
      mp == (5 * doy + 2) \div 153
      d == doy - (153 * mp + 2) \div 5 + 1
      m == IF mp < 10 THEN mp + 3 ELSE mp - 9
      y == yoe + era * 400 + (IF m <= 2 THEN 1 ELSE 0)
      s == t % 86400
  IN ZeroPadded(y, 4) \o ZeroPadded(m, 2) \o ZeroPadded(d, 2)
     \o ZeroPadded(s \div 3600, 2) \o ZeroPadded((s % 3600) \div 60, 2)
     \o ZeroPadded(s % 60, 2)

\* the names of the files uploaded: the same name twice is the same element,
\* and two names that secure_filename makes one
ImageUploads ==
  {<<"i", "m", "a", "g", "e", ".", "j", "p", "g">>,
   <<"a", " ", "b", ".", "j", "p", "g">>,
   <<"a", "_", "b", ".", "j", "p", "g">>}

NextUpload ==
  \/ \E upload \in ImageUploads : add_artwork(PlainForm, upload, strftime(now))
  \/ \E artwork_id \in 1..MaxArtworks :
       \E upload \in ImageUploads :
         edit_artwork(artwork_id, EditForm, upload, strftime(now))
  \/ \E artwork_id \in 1..MaxArtworks : delete_artwork(artwork_id)
  \/ Tick

SpecUpload == Init /\ [][NextUpload]_vars

\* ------------------------------------------------ uploads, claims
\* C22: save_upload never overwrites an earlier upload: the names it
\* returned for the images of two artworks differ, and the file of every
\* artwork that has an image is in the upload folder.
C22_NeverOverwrites ==
  \A a \in DOMAIN artworks :
    artworks[a].image_filename # None =>
      /\ artworks[a].image_filename \in upload_folder
      /\ \A b \in DOMAIN artworks \ {a} :
           artworks[b].image_filename # artworks[a].image_filename

\* ------------------------------------------------ the box page beside a deletion
\* PRAGMA foreign_keys of the SQLite connections: no source file sets it, so
\* SQLite does not hold an INSERT against db.ForeignKey("artwork.id")
foreign_keys == FALSE

\* box_page, POST, up to get_or_404: the artwork is loaded (404 otherwise)
\* and the request has the token of the label printed now and a location
box_post_load ==
  \E artwork_id \in 1..MaxArtworks, note \in Notes :
    LET token == box_label_pdf(artwork_id, now)
    IN /\ pending.pc = "idle"
       /\ IF artwork_id \notin DOMAIN artworks
          THEN /\ resp' = BoxNotFound("POST", artwork_id, token, PaddedLocation)
               /\ pending' = pending
          ELSE /\ resp' = resp
               /\ pending' = [pc |-> "loaded", artwork_id |-> artwork_id,
                              token |-> token, location |-> PaddedLocation,
                              note |-> note]
       /\ UNCHANGED <<mergeVars, formatVars, artworks, upload_folder, reply,
                      logs, now, certVars>>

\* box_page, POST, from the token on: the entry is added with the id of the
\* artwork that was loaded, and committed.  The commit expires the artwork,
\* and artwork.id of current_location(artwork.id) loads it again: when the
\* row is gone by then, ObjectDeletedError is raised and the request is
\* answered 500, after the commit.  With foreign keys held, the INSERT for
\* an artwork that is gone fails instead and nothing is stored.
box_post_commit ==
  LET r == BoxResponse("POST", pending.artwork_id, pending.token,
                       pending.location, pending.note)
      gone == pending.artwork_id \notin DOMAIN artworks
      inserts == r.added # <<>>
  IN /\ pending.pc = "loaded"
     /\ Len(logs) + Len(r.added) <= MaxLogs + 1
     /\ logs' = IF inserts /\ gone /\ foreign_keys THEN logs
               ELSE logs \o r.added
     /\ resp' = IF inserts /\ gone
               THEN [r.resp EXCEPT !.status = 500, !.success = FALSE]
               ELSE r.resp
     /\ pending' = NoPending
     /\ UNCHANGED <<mergeVars, formatVars, artworks, upload_folder, reply,
                    now, certVars>>

NextRace ==
  \/ add_artwork(PlainForm, NoUpload, UploadStamp)
  \/ \E artwork_id \in 1..MaxArtworks : delete_artwork(artwork_id)
  \/ box_post_load
  \/ box_post_commit
  \/ Tick

SpecRace == Init /\ [][NextRace]_vars

\* ------------------------------------------------ the box page beside a deletion, claims
\* C25: referential integrity under interleaving: every stored location
\* entry refers to an artwork that is stored, also when a box POST for the
\* artwork and its deletion run side by side.
C25_EntriesHaveArtworks ==
  \A i \in 1..Len(logs) : logs[i].artwork_id \in DOMAIN artworks

\* ------------------------------------------------ rendering after a save
\* the payloads the designer saves: html with text, html without text, and
\* html that is null
DesignerPayloads ==
  {Obj(<<"D">>, <<"p">>), Obj(<<"D">>, <<>>), Obj(<<"D">>, None)}

NextSaved ==
  \/ add_artwork(PlainForm, NoUpload, UploadStamp)
  \/ \E payload \in DesignerPayloads :
       api_certificate_template_save("tab1", payload)
  \/ template_insert("tab1")
  \/ api_certificate_template_save_commit("tab1")
  \/ \E artwork_id \in 1..MaxArtworks : certificate_render(artwork_id)
  \/ certificate_insert
  \/ certificate_created
  \/ certificate_render_read

SpecSaved == Init /\ [][NextSaved]_vars

\* ------------------------------------------------ rendering after a save, claims
\* C26: once a save has been acknowledged, a certificate-render request
\* for a stored artwork is never answered 400, whatever the payload held,
\* and when it has merged the template it answers 200 with the document.
C26_RendersAfterSave ==
  [][saved # NoPayload =>
       /\ (/\ render.pc \in {"idle", "done"}
           /\ render' # render
           /\ render'.artwork_id \in DOMAIN artworks) =>
             render'.status # 400
       /\ (render.pc = "checked" /\ render'.pc = "done") =>
             render'.status = 200]_vars

\* ------------------------------------------------ the merge engine, applied
InitMerge ==
  /\ pieces \in Templates
  /\ template_html = TextOf(pieces)
  /\ artwork \in MergeArtworks
  /\ upload_folder \in SUBSET {ImageName}
  /\ artwork.image_filename = None => upload_folder = {}
  /\ merged = NotRun
  /\ remerged = NotRun
  /\ FormatIdle
  /\ AppInit

\* merge_unlayer_html on the template
Merge ==
  /\ merged = NotRun
  /\ merged' = merge_unlayer_html(template_html, artwork, ARTIST_NAME,
                                  IsFile(upload_folder, artwork.image_filename),
                                  IsFile(upload_folder, artwork.image_filename))
  /\ UNCHANGED <<pieces, template_html, artwork, remerged>>
  /\ UNCHANGED <<formatVars, artworks, upload_folder, reply, boxVars, certVars>>

\* merge_unlayer_html on the text the first merge returned, same record
Remerge ==
  /\ merged # NotRun
  /\ merged.raised = ""
  /\ remerged = NotRun
  /\ remerged' = merge_unlayer_html(merged.text, artwork, ARTIST_NAME,
                                    IsFile(upload_folder, artwork.image_filename),
                                    IsFile(upload_folder, artwork.image_filename))
  /\ UNCHANGED <<pieces, template_html, artwork, merged>>
  /\ UNCHANGED <<formatVars, artworks, upload_folder, reply, boxVars, certVars>>

NextMerge == Merge \/ Remerge

SpecMerge == InitMerge /\ [][NextMerge]_vars

\* ------------------------------------------------ the merge engine, claims
\* the artwork under merge has an image file in the upload folder
ImageAvailable ==
  /\ artwork.image_filename # None
  /\ IsFile(upload_folder, artwork.image_filename)

\* the resolved value of every key for the record under merge
MergeValues ==
  ResolvedValues(artwork, ARTIST_NAME,
                 artwork_image_data_uri(artwork.image_filename, ImageAvailable,
                                        ImageAvailable).uri)

\* The template with each placeholder of a recognised key replaced by the
\* key's value and every other piece kept as written.
Substituted ==
  LET values == MergeValues
  IN Flatten([i \in 1..Len(pieces) |->
                IF pieces[i].kind = "tok" /\ pieces[i].key > 0
                THEN values[pieces[i].key]
                ELSE pieces[i].text])

\* t is a placeholder of some recognised key: the key name, white space
\* allowed on both sides of it, between one of the six pairs of delimiters
HasPlaceholderAt(s, i) ==
  \E p \in 1..Len(Delims) :
    LET o == Delims[p].open
        c == Delims[p].close
    IN /\ s[i] = o[1]
       /\ HasAt(s, i, o)
       /\ \E j \in (i + Len(o))..Len(s) :
            /\ s[j] = c[1]
            /\ HasAt(s, j, c)
            /\ \E k \in 1..Len(Keys) :
                 Strip(SubSeq(s, i + Len(o), j - 1)) = Keys[k]

HasPlaceholder(s) == \E i \in 1..Len(s) : HasPlaceholderAt(s, i)

\* an <img ...> tag starts at i and carries src="" or src=''
EmptySrcImageAt(s, i) ==
  /\ s[i] = "<"
  /\ HasAtNoCase(s, i, <<"<", "i", "m", "g">>)
  /\ LET close == IndexFrom(s, i, ">")
     IN /\ close # 0
        /\ \E j \in (i + 4)..(close - 1) :
             /\ IsSpace(s[j])
             /\ HasAtNoCase(s, j + 1, <<"s", "r", "c">>)
             /\ LET eq == SkipSpace(s, j + 4)
                    q == SkipSpace(s, eq + 1)
                IN /\ q + 1 <= Len(s)
                   /\ s[eq] = "="
                   /\ s[q] \in {SingleQuote, DoubleQuote}
                   /\ s[q + 1] = s[q]

HasEmptySrcImage(s) == \E i \in 1..Len(s) : EmptySrcImageAt(s, i)

\* no value of the record holds a backslash
NoBackslash ==
  LET values == MergeValues
  IN \A k \in 1..Len(Keys) : \A i \in 1..Len(values[k]) : values[k][i] # "\\"

\* C1: in a template made of plain text and placeholder tokens (any key, any
\* of the six syntaxes, with or without white space around the name), one
\* call of merge_unlayer_html replaces every token of a recognised key by the
\* key's resolved value and leaves every other token as written.
C1_EveryPlaceholderReplaced ==
  (/\ merged # NotRun
   /\ \A i \in 1..Len(pieces) : pieces[i].kind \in {"lit", "tok"}
   /\ \E i \in 1..Len(pieces) : pieces[i].kind = "tok")
  => merged = [raised |-> "", text |-> Substituted]

\* C2: an inserted value is never matched as a placeholder of another key: the
\* output is the simultaneous substitution of the placeholders of the
\* original template (less the empty image tags when there is no image).
C2_NotRescanned ==
  (merged # NotRun /\ NoBackslash)
  => merged = [raised |-> "",
               text |-> IF ImageAvailable THEN Substituted
                        ELSE strip_empty_image_tags(Substituted)]

\* C3: a template that holds no placeholder of a recognised key is returned
\* unchanged, for every record, with or without an available image.
C3_NoPlaceholderUnchanged ==
  (merged # NotRun /\ ~HasPlaceholder(template_html))
  => merged = [raised |-> "", text |-> template_html]

C5_NoEmptySrcImage ==
  (merged # NotRun /\ merged.raised = "" /\ ~ImageAvailable)
  => ~HasEmptySrcImage(merged.text)

\* ------------------------------------------------ the formatter, applied
FormatChars == {" ", "\t", "A", "&", "<", ">", "\"", "'"}

AandB == <<"A", " ", "&", " ", "B">>

\* the values formatted: absent, every text of at most MaxLen characters, and
\* "A & B"
Values ==
  {None, AandB} \cup UNION {[1..n -> FormatChars] : n \in 0..MaxLen}

InitFormat ==
  /\ value \in Values
  /\ formatted = NotFormatted
  /\ MergeIdle
  /\ upload_folder = {}
  /\ AppInit

\* _safe_text on the value
Format ==
  /\ formatted = NotFormatted
  /\ formatted' = _safe_text(value)
  /\ UNCHANGED <<value, mergeVars, artworks, upload_folder, reply, boxVars, certVars>>

NextFormat == Format

SpecFormat == InitFormat /\ [][NextFormat]_vars

\* ------------------------------------------------ the formatter, claims
\* C6: _safe_text gives the em dash for an absent, empty or white-space-only
\* value; for every other value it gives a text free of <, >, ' and ", in
\* which every & opens a character reference, and which reads as the value
\* without its leading and trailing white space.
C6_SafeText ==
  formatted # NotFormatted
  => IF Blank(value) THEN formatted = <<EmDash>>
     ELSE /\ formatted # <<>>
          /\ \A i \in 1..Len(formatted) :
               /\ formatted[i] \notin {"<", ">", "'", "\""}
               /\ formatted[i] = "&" => EntityAt(formatted, i) # {}
          /\ IsTrimOf(Unescape(formatted, 1), value)

\* "A & B" has been formatted, to a text that holds &amp;
C6_Witness ==
  /\ value = AandB
  /\ formatted = <<"A", " ", "&", "a", "m", "p", ";", " ", "B">>

====
